---- MODULE Spec2Model ----
(***************************************************************************)
(* Model of the Extended broadcaster proxy and market-making bot.          *)
(*                                                                         *)
(*   - the broadcaster (python-proxy/backend/main.py as documented in      *)
(*     python-proxy/BROADCASTER_ARCHITECTURE.md): BROADCASTER_CACHE,       *)
(*     BROADCAST_CLIENTS, data_changed, broadcast_to_clients,              *)
(*     poll_fast_data, poll_trades, background_poller, the /ws/broadcast   *)
(*     handler and the /api/cached-account read;                           *)
(*   - the market-making bot (bot/simple_mm_bot.py, bot/order_manager.py   *)
(*     as documented in the bot README, SIGNING_GUIDE and CHANGELOG).      *)
(*                                                                         *)
(* asyncio is cooperative: a step of the model is the code between two     *)
(* awaits of one task.                                                     *)
(***************************************************************************)
EXTENDS Integers, Sequences, FiniteSets, TLC

\* ------------------------------------------------------------------ bounds

\* wall-clock instants the model distinguishes (1..MaxTime)
MaxTime == 2
\* websocket connections that may ever be opened
MaxConn == 2
\* the keep-alive pings followed are those a connection sees among its
\* first MaxPing + 1 messages
MaxPing == 1

\* -------------------------------------------------------------- JSON values

\* A decoded JSON payload: null, an object (its key/value pairs in the order
\* the exchange sent them) or a list of objects.
Null == [t |-> "null", v |-> <<>>]
Obj(pairs) == [t |-> "obj", v |-> pairs]
List(items) == [t |-> "list", v |-> items]

\* every key the payloads use, in lexicographic (sort_keys) order
KeyOrder == <<"equity", "id", "marginRatio", "market", "size">>
KeyRank(k) == CHOOSE i \in 1..Len(KeyOrder) : KeyOrder[i] = k

\* insertion of one pair into a key-sorted sequence of pairs
RECURSIVE InsertPair(_, _)
InsertPair(p, sorted) ==
    IF sorted = <<>> THEN <<p>>
    ELSE IF KeyRank(p[1]) <= KeyRank(Head(sorted)[1])
         THEN <<p>> \o sorted
         ELSE <<Head(sorted)>> \o InsertPair(p, Tail(sorted))

RECURSIVE SortKeys(_)
SortKeys(pairs) ==
    IF pairs = <<>> THEN <<>> ELSE InsertPair(Head(pairs), SortKeys(Tail(pairs)))

\* a serialisation that sorts the keys of the top-level object only
DumpsTopLevelSorted(x) ==
    CASE x.t = "null" -> x
      [] x.t = "obj"  -> [t |-> "obj", v |-> SortKeys(x.v)]
      [] x.t = "list" -> x

\* json.dumps(x, sort_keys=True): every object's keys sorted, lists keep
\* their order
DumpsSorted(x) ==
    CASE x.t = "null" -> x
      [] x.t = "obj"  -> [t |-> "obj", v |-> SortKeys(x.v)]
      [] x.t = "list" -> [t |-> "list",
                          v |-> [i \in 1..Len(x.v) |-> SortKeys(x.v[i])]]

\* data_changed with json.dumps called without sort_keys: the serialisation
\* keeps every object's insertion order
data_changed_unsorted(old_data, new_data) ==
    IF old_data = Null /\ new_data # Null THEN TRUE
    ELSE old_data # new_data

\* def data_changed(old_data, new_data) -> bool
data_changed(old_data, new_data) ==
    IF old_data = Null /\ new_data # Null THEN TRUE
    ELSE DumpsSorted(old_data) # DumpsSorted(new_data)

\* ------------------------------------------------- binary64 arithmetic
\* Prices, spreads and thresholds are Python floats (and JavaScript numbers
\* in the panel): IEEE-754 binary64 with round-to-nearest-even.  A natural
\* number is the sequence of its bits, least significant first; a float is
\* [s, m, e] of value (-1)^s * m * 2^e with m of exactly 53 bits, or zero
\* (the prices handled are far from the subnormal and the overflow range).

RECURSIVE NatBits(_)
NatBits(n) == IF n = 0 THEN <<>> ELSE <<n % 2>> \o NatBits(n \div 2)

\* the recursions below halve an index range, so that their depth stays
\* logarithmic in the number of bits

\* the highest index in lo..hi of a 1 bit, 0 when there is none
RECURSIVE TopBit(_, _, _)
TopBit(b, lo, hi) ==
    IF lo > hi THEN 0
    ELSE IF lo = hi THEN (IF b[lo] = 1 THEN lo ELSE 0)
    ELSE LET mid == (lo + hi) \div 2
             t == TopBit(b, mid + 1, hi)
         IN  IF t > 0 THEN t ELSE TopBit(b, lo, mid)

\* without leading zeros
Trim(b) == SubSeq(b, 1, TopBit(b, 1, Len(b)))

BitAt(b, i) == IF i <= Len(b) THEN b[i] ELSE 0

\* bits lo..hi of a + b + c, and the carry out
RECURSIVE AddSeg(_, _, _, _, _)
AddSeg(a, b, lo, hi, c) ==
    IF lo = hi
    THEN LET t == BitAt(a, lo) + BitAt(b, lo) + c
         IN  [v |-> <<t % 2>>, c |-> t \div 2]
    ELSE LET mid == (lo + hi) \div 2
             low == AddSeg(a, b, lo, mid, c)
             high == AddSeg(a, b, mid + 1, hi, low.c)
         IN  [v |-> low.v \o high.v, c |-> high.c]

NAdd(a, b) ==
    LET n == IF Len(a) > Len(b) THEN Len(a) ELSE Len(b)
        r == AddSeg(a, b, 1, n, 0)
    IN  IF n = 0 THEN <<>> ELSE Trim(r.v \o <<r.c>>)

\* bits lo..hi of a - b - c, and the borrow out
RECURSIVE SubSeg(_, _, _, _, _)
SubSeg(a, b, lo, hi, c) ==
    IF lo = hi
    THEN LET t == BitAt(a, lo) - BitAt(b, lo) - c
         IN  [v |-> <<t % 2>>, c |-> IF t < 0 THEN 1 ELSE 0]
    ELSE LET mid == (lo + hi) \div 2
             low == SubSeg(a, b, lo, mid, c)
             high == SubSeg(a, b, mid + 1, hi, low.c)
         IN  [v |-> low.v \o high.v, c |-> high.c]

\* a - b for a >= b
NSub(a, b) == IF a = <<>> THEN <<>> ELSE Trim(SubSeg(a, b, 1, Len(a), 0).v)

\* -1, 0, 1 as a < b, a = b, a > b on bits lo..hi, the high ones first
RECURSIVE CmpSeg(_, _, _, _)
CmpSeg(a, b, lo, hi) ==
    IF lo > hi THEN 0
    ELSE IF lo = hi
    THEN (IF a[lo] > b[lo] THEN 1 ELSE IF a[lo] < b[lo] THEN -1 ELSE 0)
    ELSE LET mid == (lo + hi) \div 2
             t == CmpSeg(a, b, mid + 1, hi)
         IN  IF t # 0 THEN t ELSE CmpSeg(a, b, lo, mid)

\* both without leading zeros
NCmp(a, b) ==
    IF Len(a) > Len(b) THEN 1
    ELSE IF Len(a) < Len(b) THEN -1
    ELSE CmpSeg(a, b, 1, Len(a))

NShl(a, k) == IF a = <<>> THEN <<>> ELSE [i \in 1..k |-> 0] \o a
NShr(a, k) == IF k >= Len(a) THEN <<>> ELSE SubSeq(a, k + 1, Len(a))

\* (bits lo..hi of a) * b
RECURSIVE MulSeg(_, _, _, _)
MulSeg(a, b, lo, hi) ==
    IF lo = hi THEN (IF a[lo] = 1 THEN b ELSE <<>>)
    ELSE LET mid == (lo + hi) \div 2
         IN  NAdd(MulSeg(a, b, lo, mid),
                  NShl(MulSeg(a, b, mid + 1, hi), mid - lo + 1))

NMul(a, b) == IF a = <<>> \/ b = <<>> THEN <<>> ELSE MulSeg(a, b, 1, Len(a))

\* long division by b of the remainder r followed by bits hi..lo of a:
\* the hi - lo + 1 quotient bits and the new remainder (the test on high.q,
\* never empty, has the high half evaluated before the low one)
RECURSIVE DivSeg(_, _, _, _, _)
DivSeg(a, b, lo, hi, r) ==
    IF lo = hi
    THEN LET r2 == Trim(<<a[lo]>> \o r)
             ge == NCmp(r2, b) >= 0
         IN  [q |-> <<IF ge THEN 1 ELSE 0>>,
              r |-> IF ge THEN NSub(r2, b) ELSE r2]
    ELSE LET mid == (lo + hi) \div 2
             high == DivSeg(a, b, mid + 1, hi, r)
             low == DivSeg(a, b, lo, mid, high.r)
         IN  IF high.q = <<>> THEN high
             ELSE [q |-> low.q \o high.q, r |-> low.r]

\* quotient and remainder of a by b, for a # 0 and b # 0
NDivMod(a, b) ==
    LET d == DivSeg(a, b, 1, Len(a), <<>>) IN [q |-> Trim(d.q), r |-> d.r]

FZero == [s |-> 0, m |-> <<>>, e |-> 0]

\* the float nearest to (-1)^s * M * 2^e, ties to even
Round(s, M0, e) ==
    LET M == Trim(M0)
        L == Len(M)
    IN  IF L = 0 THEN FZero
        ELSE IF L <= 53 THEN [s |-> s, m |-> NShl(M, 53 - L), e |-> e - (53 - L)]
        ELSE LET k == L - 53
                 q == NShr(M, k)
                 sticky == \E i \in 1..(k - 1) : M[i] = 1
                 up == M[k] = 1 /\ (sticky \/ q[1] = 1)
                 q2 == IF up THEN NAdd(q, <<1>>) ELSE q
             IN  IF Len(q2) = 54
                 THEN [s |-> s, m |-> NShr(q2, 1), e |-> e + k + 1]
                 ELSE [s |-> s, m |-> q2, e |-> e + k]

FromInt(n) == Round(0, NatBits(n), 0)

FNeg(a) == IF a.m = <<>> THEN a ELSE [a EXCEPT !.s = 1 - @]
FAbs(a) == [a EXCEPT !.s = 0]

FMul(a, b) ==
    IF a.m = <<>> \/ b.m = <<>> THEN FZero
    ELSE Round((a.s + b.s) % 2, NMul(a.m, b.m), a.e + b.e)

FAdd(a, b) ==
    IF a.m = <<>> THEN b
    ELSE IF b.m = <<>> THEN a
    ELSE LET e == IF a.e < b.e THEN a.e ELSE b.e
             A == NShl(a.m, a.e - e)
             B == NShl(b.m, b.e - e)
             c == NCmp(A, B)
         IN  IF a.s = b.s THEN Round(a.s, NAdd(A, B), e)
             ELSE IF c = 0 THEN FZero
             ELSE IF c > 0 THEN Round(a.s, NSub(A, B), e)
             ELSE Round(b.s, NSub(B, A), e)

FSub(a, b) == FAdd(a, FNeg(b))

\* a / b for b # 0: 58 quotient bits, the last one sticky
FDiv(a, b) ==
    IF a.m = <<>> THEN FZero
    ELSE LET d == NDivMod(NShl(a.m, 57), b.m)
             M == <<IF d.r = <<>> THEN 0 ELSE 1>> \o d.q
         IN  Round((a.s + b.s) % 2, M, a.e - b.e - 58)

\* a > b
FGt(a, b) == LET d == FSub(a, b) IN d.m # <<>> /\ d.s = 0

\* the float a decimal literal denotes: n / 10^k, correctly rounded
RECURSIVE Pow10(_)
Pow10(k) == IF k = 0 THEN 1 ELSE 10 * Pow10(k - 1)

Float(n, k) == FDiv(FromInt(n), FromInt(Pow10(k)))

\* ----------------------------------------------------------- the exchange

Categories == {"positions", "balance", "trades"}

\* what /user/positions, /user/balance and /user/trades may answer
BalanceA  == Obj(<< <<"equity", 1>>, <<"marginRatio", 2>> >>)
PositionsNone == List(<<>>)
PositionsA  == List(<< << <<"market", 1>>, <<"size", 1>> >> >>)
PositionsAr == List(<< << <<"size", 1>>, <<"market", 1>> >> >>)
TradesA == List(<< << <<"id", 1>>, <<"market", 1>> >> >>)

Payloads(c) ==
    CASE c = "positions" -> {PositionsNone, PositionsA, PositionsAr}
      [] c = "balance"   -> {BalanceA}
      [] c = "trades"    -> {TradesA}

\* a fetch that failed (network error, timeout, 4xx/5xx)
Failed == [t |-> "failed", v |-> <<>>]

\* fetch_extended_api(path): the decoded payload, or a failure
FetchResults(c) == Payloads(c) \cup {Failed}

\* ------------------------------------------------------------------ state

Conns == 1..MaxConn

VARIABLES
    now,                \* wall clock (time.time())
    cache,              \* BROADCASTER_CACHE["positions"|"balance"|"trades"]
    last_update,        \* BROADCASTER_CACHE["last_update"]
    BROADCAST_CLIENTS,  \* set of websockets
    pollerPc,           \* where background_poller is suspended
    fetched,            \* the payloads the current tick fetched
    TRADES_POLL_COUNTER,
    wakeAt,             \* when asyncio.sleep(0.25) ends
    pass,               \* the running broadcast_to_clients call
    conn,               \* each websocket and its handler's position
    inbox,              \* the messages written to each websocket, in order
    pubSeq,             \* number of broadcast_to_clients calls made
    resp,               \* the last /api/cached-account response
    botState,           \* "STOPPED" or "RUNNING"
    bot_config,         \* BotConfig
    ACTIVE_BOT_ORDERS,  \* the orders the bot tracks
    last_price,         \* the price of the last quotes
    botPc,              \* where bot_main_loop is suspended
    mark_prices,        \* the cached mark prices this iteration read
    current_price,      \* the price this iteration resolved
    quotes,             \* the bid and ask of this iteration
    toCancel,           \* tracked orders a replace or a stop has yet to cancel
    stopPc,             \* where the stop handler is suspended
    calls,              \* requests sent to the exchange's order endpoint
    lastResult,         \* how the last bot operation ended
    in_flight,          \* order requests sent and not acknowledged yet
    wsState,            \* useExtendedWebSocket: wsRef.current.readyState
    reconnectAttempts,  \* reconnectAttemptsRef.current
    reconnectTimeout,   \* reconnectTimeoutRef.current: the pending timer
    isConnected,        \* useExtendedWebSocket state
    error,              \* useExtendedWebSocket state
    lastMessage,        \* useExtendedWebSocket state: the type of the message
    extendedData,       \* useExtendedWebSocket state: whether a balance is held
    mounted,            \* whether the hook's effect has run or was cleaned up
    restAccountData,    \* Index: what useAccountRestAPI returned last
    allPositions,       \* Index: Map market -> position
    portfolioData,      \* Index: the statistics derived from allPositions
    old_data,           \* data_changed: its first argument
    new_data,           \* data_changed: its second argument
    changed,            \* data_changed: what it returned
    issued,             \* useAccountRestAPI: fetches the interval has started
    pending,            \* useAccountRestAPI: fetches awaiting their response
    applied             \* useAccountRestAPI: the fetch whose response data holds

cacheVars == <<cache, last_update>>
pollerVars == <<pollerPc, fetched, TRADES_POLL_COUNTER, wakeAt>>
clientVars == <<BROADCAST_CLIENTS, conn, inbox>>
bvars == <<now, cacheVars, pollerVars, clientVars, pass, pubSeq, resp>>

evars == <<botState, bot_config, ACTIVE_BOT_ORDERS, last_price, botPc,
           mark_prices,
           current_price, quotes, toCancel, stopPc, calls, lastResult,
           in_flight>>

hookVars == <<wsState, reconnectAttempts, reconnectTimeout, isConnected,
              error, lastMessage, extendedData, mounted>>
pageVars == <<restAccountData, allPositions, portfolioData>>
cmpVars == <<old_data, new_data, changed>>
restVars == <<issued, pending, applied>>
fnVars == <<cmpVars, restVars>>
uvars == <<hookVars, pageVars, fnVars>>

vars == <<bvars, evars, uvars>>

\* ------------------------------------------------------------ broadcaster

\* if TRADES_POLL_COUNTER >= 20: await poll_trades()
TradesEvery == 20

NoPass == [type |-> "none", seq |-> 0, orig |-> {}, visited |-> {},
           used |-> 0, disconnected |-> {}, ret |-> "none"]
NoResp == [status |-> "none", positions |-> Null, balance |-> Null,
           trades |-> Null,
           cache_age_ms |-> [c \in Categories |-> 0], at |-> 0, writes |-> 0]

BInit ==
    /\ now = 1
    /\ cache = [c \in Categories |-> Null]
    /\ last_update = [c \in Categories |-> 0]
    /\ BROADCAST_CLIENTS = {}
    /\ pollerPc = "poll_fast"
    /\ fetched = [c \in Categories |-> Null]
    /\ TRADES_POLL_COUNTER = TradesEvery
    /\ wakeAt = 0
    /\ pass = NoPass
    /\ conn = [c \in Conns |-> "new"]
    /\ inbox = [c \in Conns |-> <<>>]
    /\ pubSeq = 0
    /\ resp = NoResp

\* asyncio runs one task at a time: the poller keeps the event loop from a
\* resumption to its next await, and other tasks run (and time passes) only
\* while it is suspended in a fetch, a send or the sleep
PollerSuspended ==
    \/ pollerPc \in {"poll_fast", "broadcast", "sleeping"}
    \/ pollerPc = "check_trades" /\ TRADES_POLL_COUNTER >= TradesEvery

\* time passes
ClockTick ==
    /\ PollerSuspended
    /\ now < MaxTime
    /\ now' = now + 1
    /\ UNCHANGED <<cacheVars, pollerVars, clientVars, pass, pubSeq, resp,
                   evars, uvars>>

\* a send on the websocket succeeds while the connection is up
alive(c) == conn[c] = "open"

\* await client.send_text(message_json) inside the try/except of
\* broadcast_to_clients: the frame is written to the websocket, or the send
\* raises and the client is remembered as disconnected
SendTo(c, p, box) ==
    IF alive(c)
    THEN [box |-> [box EXCEPT ![c] = Append(@, [type |-> p.type, seq |-> p.seq])],
          pass |-> [p EXCEPT !.visited = @ \cup {c}]]
    ELSE [box |-> box,
          pass |-> [p EXCEPT !.visited = @ \cup {c},
                             !.disconnected = @ \cup {c}]]

\* the call of broadcast_to_clients(message) up to its first await: the set
\* iterator is created and, when the set is not empty, the first send starts
BeginBroadcast(type, ret) ==
    LET p0 == [type |-> type, seq |-> pubSeq + 1, orig |-> BROADCAST_CLIENTS,
               visited |-> {}, used |-> Cardinality(BROADCAST_CLIENTS),
               disconnected |-> {}, ret |-> ret]
    IN  /\ pubSeq' = pubSeq + 1
        /\ IF BROADCAST_CLIENTS = {}
           THEN /\ pass' = NoPass
                /\ pollerPc' = ret
                /\ inbox' = inbox
           ELSE \E c \in BROADCAST_CLIENTS :
                  LET r == SendTo(c, p0, inbox)
                  IN  /\ pass' = r.pass
                      /\ inbox' = r.box
                      /\ pollerPc' = "broadcast"

\* CACHE[c] = new, stamped with the time of the update
CacheWrite(c, new) ==
    /\ cache' = [cache EXCEPT ![c] = new]
    /\ last_update' = [last_update EXCEPT ![c] = now]

\* a tick that sends what it fetched whether it changed or not
CompareAndPublishAlways(c, ret) ==
    /\ IF data_changed(cache[c], fetched[c])
       THEN CacheWrite(c, fetched[c])
       ELSE UNCHANGED <<cache, last_update>>
    /\ BeginBroadcast(c, ret)

\* if data_changed(CACHE[c], new): CACHE[c] = new; await broadcast_to_clients(..)
CompareAndPublish(c, ret) ==
    /\ IF data_changed(cache[c], fetched[c])
       THEN /\ CacheWrite(c, fetched[c])
            /\ BeginBroadcast(c, ret)
       ELSE /\ pollerPc' = ret
            /\ UNCHANGED <<cache, last_update, pubSeq, pass, inbox>>

\* what the two fetches of poll_fast_data hand back: the second one is not
\* made when the first one failed
FastFetched(rp, rb) ==
    IF rp = Failed THEN [fetched EXCEPT !["positions"] = Failed]
    ELSE [fetched EXCEPT !["positions"] = rp, !["balance"] = rb]

\* a failed fetch that nothing catches: the exception leaves
\* background_poller's loop and the task is over
FetchFailureUnhandled(next) == "crashed"

\* a failed fetch is logged and absorbed: the poller goes on with what is
\* left of the tick
FetchFailureAbsorbed(next) == next

\* poll_fast_data: the two fetches. A failed fetch is logged and the tick is
\* skipped.
PollFastFetch ==
    /\ pollerPc = "poll_fast"
    /\ \E rp \in FetchResults("positions"), rb \in FetchResults("balance") :
         /\ fetched' = FastFetched(rp, rb)
         /\ pollerPc' = IF rp = Failed \/ rb = Failed
                        THEN FetchFailureAbsorbed("check_trades")
                        ELSE "cmp_positions"
    /\ UNCHANGED <<now, cacheVars, TRADES_POLL_COUNTER, wakeAt, clientVars,
                   pass, pubSeq, resp,
                   evars, uvars>>

PollFastPositions ==
    /\ pollerPc = "cmp_positions"
    /\ CompareAndPublish("positions", "cmp_balance")
    /\ UNCHANGED <<now, fetched, TRADES_POLL_COUNTER, wakeAt,
                   BROADCAST_CLIENTS, conn, resp,
                   evars, uvars>>

PollFastBalance ==
    /\ pollerPc = "cmp_balance"
    /\ CompareAndPublish("balance", "check_trades")
    /\ UNCHANGED <<now, fetched, TRADES_POLL_COUNTER, wakeAt,
                   BROADCAST_CLIENTS, conn, resp,
                   evars, uvars>>

\* the rest of broadcast_to_clients, from one await to the next: the set
\* iterator is advanced (it raises RuntimeError when the set changed size
\* since the iterator was created), the next send starts, and after the last
\* one the disconnected clients are discarded.  A client added while the
\* pass was suspended sits in the hash table before or after the iterator's
\* position: it may be visited or not.  The RuntimeError ends the tick.
BroadcastNext ==
    /\ pollerPc = "broadcast"
    /\ IF Cardinality(BROADCAST_CLIENTS) # pass.used
       THEN /\ pass' = NoPass
            /\ pollerPc' = "sleep"
            /\ UNCHANGED <<BROADCAST_CLIENTS, inbox>>
       ELSE LET must == (pass.orig \cap BROADCAST_CLIENTS) \ pass.visited
                may  == (BROADCAST_CLIENTS \ pass.orig) \ pass.visited
            IN  \E c \in must \cup may \cup {0} :
                  IF c = 0
                  THEN /\ must = {}
                       /\ BROADCAST_CLIENTS' =
                              BROADCAST_CLIENTS \ pass.disconnected
                       /\ pollerPc' = pass.ret
                       /\ pass' = NoPass
                       /\ inbox' = inbox
                  ELSE LET r == SendTo(c, pass, inbox)
                       IN  /\ pass' = r.pass
                           /\ inbox' = r.box
                           /\ UNCHANGED <<BROADCAST_CLIENTS, pollerPc>>
    /\ UNCHANGED <<now, cacheVars, fetched, TRADES_POLL_COUNTER, wakeAt, conn,
                   pubSeq, resp,
                   evars, uvars>>

\* background_poller: if TRADES_POLL_COUNTER >= 20: await poll_trades()
PollTradesFetch ==
    /\ pollerPc = "check_trades"
    /\ IF TRADES_POLL_COUNTER >= TradesEvery
       THEN /\ TRADES_POLL_COUNTER' = 0
            /\ \E rt \in FetchResults("trades") :
                 /\ fetched' = [fetched EXCEPT !["trades"] = rt]
                 /\ pollerPc' = IF rt = Failed
                                THEN FetchFailureAbsorbed("sleep")
                                ELSE "cmp_trades"
       ELSE /\ TRADES_POLL_COUNTER' = TRADES_POLL_COUNTER + 1
            /\ pollerPc' = "sleep"
            /\ fetched' = fetched
    /\ UNCHANGED <<now, cacheVars, wakeAt, clientVars, pass, pubSeq, resp,
                   evars, uvars>>

PollTrades ==
    /\ pollerPc = "cmp_trades"
    /\ CompareAndPublish("trades", "sleep")
    /\ UNCHANGED <<now, fetched, TRADES_POLL_COUNTER, wakeAt,
                   BROADCAST_CLIENTS, conn, resp,
                   evars, uvars>>

\* await asyncio.sleep(0.25)
PollerSleep ==
    /\ pollerPc = "sleep"
    /\ pollerPc' = "sleeping"
    /\ wakeAt' = now + 1
    /\ fetched' = [c \in Categories |-> Null]
    /\ UNCHANGED <<now, cacheVars, TRADES_POLL_COUNTER, clientVars,
                   pass, pubSeq, resp,
                   evars, uvars>>

PollerWake ==
    /\ pollerPc = "sleeping"
    /\ now >= wakeAt
    /\ pollerPc' = "poll_fast"
    /\ wakeAt' = 0
    /\ UNCHANGED <<now, cacheVars, fetched, TRADES_POLL_COUNTER, clientVars,
                   pass, pubSeq, resp,
                   evars, uvars>>

\* ------------------------------------------------- /ws/broadcast handler

\* the handler adds the websocket to the set and suspends before the
\* snapshot is written
SubscribeWithoutSnapshot(c) ==
    /\ PollerSuspended
    /\ conn[c] = "new"
    /\ BROADCAST_CLIENTS' = BROADCAST_CLIENTS \cup {c}
    /\ conn' = [conn EXCEPT ![c] = "open"]
    /\ UNCHANGED <<now, cacheVars, pollerVars, inbox, pass, pubSeq, resp,
                   evars, uvars>>

\* await websocket.accept(); BROADCAST_CLIENTS.add(websocket);
\* await websocket.send_json({"type": "snapshot", ...}): no await separates
\* the add from the start of the snapshot send
Subscribe(c) ==
    /\ PollerSuspended
    /\ conn[c] = "new"
    /\ BROADCAST_CLIENTS' = BROADCAST_CLIENTS \cup {c}
    /\ inbox' = [inbox EXCEPT ![c] = Append(@, [type |-> "snapshot",
                                                seq |-> pubSeq])]
    /\ conn' = [conn EXCEPT ![c] = "open"]
    /\ UNCHANGED <<now, cacheVars, pollerVars, pass, pubSeq, resp,
                   evars, uvars>>

\* the handler's keep-alive loop, entered once the snapshot is out:
\* await asyncio.sleep(30); await websocket.send_json({"type": "ping"})
Ping(c) ==
    /\ PollerSuspended
    /\ conn[c] = "open"
    /\ Len(inbox[c]) <= MaxPing
    /\ inbox' = [inbox EXCEPT ![c] = Append(@, [type |-> "ping",
                                                seq |-> pubSeq])]
    /\ UNCHANGED <<now, cacheVars, pollerVars, BROADCAST_CLIENTS, conn, pass,
                   pubSeq, resp,
                   evars, uvars>>

\* the connection breaks: every later send on it raises, and what was
\* written to it is gone with the peer
ConnectionLost(c) ==
    /\ PollerSuspended
    /\ conn[c] = "open"
    /\ conn' = [conn EXCEPT ![c] = "lost"]
    /\ inbox' = [inbox EXCEPT ![c] = <<>>]
    /\ UNCHANGED <<now, cacheVars, pollerVars, BROADCAST_CLIENTS, pass, pubSeq,
                   resp,
                   evars, uvars>>

\* a handler that ends without removing its websocket from the set
DisconnectKeepsClient(c) ==
    /\ PollerSuspended
    /\ conn[c] \in {"open", "lost"}
    /\ conn' = [conn EXCEPT ![c] = "closed"]
    /\ inbox' = [inbox EXCEPT ![c] = <<>>]
    /\ UNCHANGED <<now, cacheVars, pollerVars, BROADCAST_CLIENTS, pass,
                   pubSeq, resp, evars, uvars>>

\* the handler sees the disconnect (the peer closed, or the ping it sends
\* raises) and removes the client from the set
Disconnect(c) ==
    /\ PollerSuspended
    /\ conn[c] \in {"open", "lost"}
    /\ conn' = [conn EXCEPT ![c] = "closed"]
    /\ BROADCAST_CLIENTS' = BROADCAST_CLIENTS \ {c}
    /\ inbox' = [inbox EXCEPT ![c] = <<>>]
    /\ UNCHANGED <<now, cacheVars, pollerVars, pass, pubSeq, resp,
                   evars, uvars>>

\* -------------------------------------------------- /api/cached-account

\* the response body: the cached categories and their ages
CachedAccount ==
    [status |-> "ok",
     positions |-> cache["positions"],
     balance |-> cache["balance"],
     trades |-> cache["trades"],
     cache_age_ms |-> [c \in Categories |-> now - last_update[c]],
     at |-> now, writes |-> pubSeq]

\* a handler that counts a read as a refresh of the category stamps
get_cached_account_refreshing ==
    /\ PollerSuspended
    /\ resp' = CachedAccount
    /\ last_update' = [c \in Categories |-> now]
    /\ UNCHANGED <<now, cache, pollerVars, clientVars, pass, pubSeq,
                   evars, uvars>>

\* GET /api/cached-account: returns the data of BROADCASTER_CACHE, served
\* from memory
get_cached_account ==
    /\ PollerSuspended
    /\ resp' = CachedAccount
    /\ UNCHANGED <<now, cacheVars, pollerVars, clientVars, pass, pubSeq,
                   evars, uvars>>

\* GET /health: "cache_initialized"
cache_initialized == \A c \in Categories : cache[c] # Null

\* useAccountRestAPI.fetchAccountData: what the hook keeps of a response,
\* balance: jsonData.balance?.data || null,
\* positions: jsonData.positions?.data || []
fetchAccountData(jsonData) ==
    [balance |-> jsonData.balance,
     positions |-> IF jsonData.positions = Null THEN List(<<>>)
                   ELSE jsonData.positions,
     error |-> Null]

\* ------------------------------------------------- market-making bot

\* orders the exchange accepts in one run
MaxOrders == 2

\* order requests awaiting their acknowledgement at one time
MaxInFlight == 1

One == FromInt(1)

\* no price could be resolved
NoPrice == [s |-> 2, m |-> <<>>, e |-> 0]

\* class BotConfig
DefaultConfig ==
    [market |-> "BTC-USD", spread_percentage |-> Float(1, 3),
     order_size |-> "0.01", refresh_interval |-> 5,
     price_move_threshold |-> Float(2, 3)]

\* the configurations POST /api/bot/config is called with
Configs ==
    {DefaultConfig,
     [DefaultConfig EXCEPT !.spread_percentage = Float(2, 3),
                           !.order_size = "0.02"]}

\* the mark prices the cache may hold for the market
Prices == {Float(100, 0), Float(10019, 2), Float(10021, 2), Float(60000, 0)}

Range(f) == {f[x] : x \in DOMAIN f}

\* bid_price = price * (1 - spread); ask_price = price * (1 + spread)
calculate_quotes(price, spread) ==
    [bid |-> FMul(price, FSub(One, spread)),
     ask |-> FMul(price, FAdd(One, spread))]

\* the refresh trigger without the abs()
price_change_signed(current, last) == FDiv(FSub(current, last), last)

\* price_change = abs(current_price - last_price) / last_price
price_change(current, last) == FDiv(FAbs(FSub(current, last)), last)

\* the arithmetic of the quotes and of the trigger, worked out once for the
\* prices and configurations above
\* a function written out as its finite table of values
Tabulated(f) == f @@ <<>>

QuoteTable ==
    Tabulated([p \in Prices, c \in Configs |->
                  calculate_quotes(p, c.spread_percentage)])

MovedTable ==
    Tabulated([p, l \in Prices, c \in Configs |->
                  FGt(price_change(p, l), c.price_move_threshold)])

QuotePrices == UNION {{q.bid, q.ask} : q \in Range(QuoteTable)}

\* if price_change > price_move_threshold: refresh_orders(); the first
\* quotes are placed when no order is tracked yet
should_refresh(current, last, config, orders) ==
    \/ orders = {}
    \/ MovedTable[current, last, config]

\* ---- order signing (bot/order_manager.py), over a toy field of 13 elements

\* the integer part of a non-negative float
Trunc(f) == IF f.e >= 0 THEN NShl(f.m, f.e) ELSE NShr(f.m, 0 - f.e)

RECURSIVE BitsValue(_)
BitsValue(b) == IF b = <<>> THEN 0 ELSE Head(b) + 2 * BitsValue(Tail(b))

\* a natural number as a field element
Felt(b) == IF b = <<>> THEN 0 ELSE BitsValue(NDivMod(b, NatBits(13)).r)

\* price_scaled = int(float(price) * 10**8)
price_scaled(price) == Felt(Trunc(FMul(price, FromInt(100000000))))

\* side_int = 0 if side == "BUY" else 1
side_int(side) == IF side = "BUY" THEN 0 ELSE 1

pedersen_hash(a, b) == (3 * a + 5 * b + 1) % 13

\* the Pedersen hash chain over market_id, side, price_scaled, size_scaled,
\* nonce, time_in_force (POST_ONLY = 3) and reduce_only
generate_order_hash(market_id, side, price, size, nonce) ==
    LET h1 == pedersen_hash(market_id, side_int(side))
        h2 == pedersen_hash(h1, price_scaled(price))
        h3 == pedersen_hash(h2, size)
        h4 == pedersen_hash(h3, nonce)
        h5 == pedersen_hash(h4, 3)
    IN  pedersen_hash(h5, 0)

private_to_stark_key(private_key) == (2 * private_key) % 13

\* r, s = sign(msg_hash=order_hash, priv_key=private_key_int)
sign(msg_hash, priv_key) ==
    [r |-> (msg_hash + 1) % 13, s |-> (msg_hash * priv_key) % 13]

\* verify(msg_hash=order_hash, r=r, s=s, public_key=public_key_int)
verify(msg_hash, r, s, public_key) ==
    /\ r = (msg_hash + 1) % 13
    /\ (2 * s) % 13 = (msg_hash * public_key) % 13

\* the key pair of the environment, validated on startup
PrivateKey == 5
PublicKey == private_to_stark_key(PrivateKey)

\* sign() raised
SignFailed == [r |-> -1, s |-> -1]

\* what the signing library hands back: the signature, a signature of
\* another curve, or an exception
SignResults(msg_hash) ==
    LET good == sign(msg_hash, PrivateKey)
    IN  {good, [good EXCEPT !.s = (@ + 1) % 13], SignFailed}

\* the order hashes of the quotes, worked out once
HashTable ==
    Tabulated([side \in {"BUY", "SELL"}, price \in QuotePrices,
               nonce \in 1..(MaxTime + 1) |->
                  generate_order_hash(1, side, price, 1, nonce)])

NoResult == [op |-> "none", side |-> "none", outcome |-> "none",
             verified |-> FALSE]

\* no mark price read
NoMarks == [balance |-> NoPrice, position |-> NoPrice]

\* what the cache holds for the market when an iteration reads it: the
\* balance's mark_prices entry and the position's mark_price, each a
\* price, zero or missing
MarkInputs ==
    {[balance |-> p, position |-> NoPrice] : p \in Prices}
    \cup {[balance |-> Float(100, 0), position |-> Float(60000, 0)],
          [balance |-> NoPrice, position |-> Float(10019, 2)],
          [balance |-> NoPrice, position |-> NoPrice],
          [balance |-> FZero, position |-> Float(100, 0)],
          [balance |-> NoPrice, position |-> FZero]}

\* a lookup that prefers the position's mark price
get_current_price_position_first(balance_price, position_price) ==
    IF position_price # NoPrice THEN position_price ELSE balance_price

\* get_current_price: PRIORITY 1 the balance's mark_prices, PRIORITY 2 the
\* position's mark_price as the fallback
get_current_price(balance_price, position_price) ==
    IF balance_price # NoPrice THEN balance_price ELSE position_price

\* an iteration quotes only against a price that was found and is not zero
price_usable(p) == p # NoPrice /\ p # FZero

EInit ==
    /\ botState = "STOPPED"
    /\ bot_config = DefaultConfig
    /\ ACTIVE_BOT_ORDERS = {}
    /\ last_price = NoPrice
    /\ botPc = "idle"
    /\ mark_prices = NoMarks
    /\ current_price = NoPrice
    /\ quotes = [bid |-> NoPrice, ask |-> NoPrice]
    /\ toCancel = {}
    /\ stopPc = "none"
    /\ calls = <<>>
    /\ lastResult = NoResult
    /\ in_flight = {}

OrderIds(orders) == {o.id : o \in orders}

\* the tracked orders are gone through in the order of the dictionary
FirstOf(ids) == CHOOSE i \in ids : \A j \in ids : i <= j

\* the id the exchange gives an accepted order: one that no tracked order has
NewId(orders) == CHOOSE i \in 1..MaxOrders : i \notin OrderIds(orders)

\* the local verification of a signature; a signing call that raised has
\* nothing to verify
local_verify(msg_hash, sig) ==
    sig # SignFailed /\ verify(msg_hash, sig.r, sig.s, PublicKey)

\* POST /api/bot/start
start_bot ==
    /\ botState = "STOPPED"
    /\ botState' = "RUNNING"
    /\ botPc' = "tick"
    /\ lastResult' = [NoResult EXCEPT !.op = "start", !.outcome = "ok"]
    /\ UNCHANGED <<bot_config, ACTIVE_BOT_ORDERS, last_price, current_price,
                   quotes, toCancel, stopPc, calls, mark_prices,
                   in_flight, bvars, uvars>>

\* a handler that applies the update whatever the bot does
update_config_unlocked(cfg) ==
    /\ bot_config' = cfg
    /\ lastResult' = [NoResult EXCEPT !.op = "update_config", !.outcome = "ok"]
    /\ UNCHANGED <<botState, ACTIVE_BOT_ORDERS, last_price, botPc,
                   current_price, quotes, toCancel, stopPc, calls,
                   mark_prices,
                   in_flight, bvars, uvars>>

\* POST /api/bot/config: only when the bot is stopped
update_config(cfg) ==
    /\ IF botState = "RUNNING"
       THEN /\ bot_config' = bot_config
            /\ lastResult' = [NoResult EXCEPT !.op = "update_config",
                                              !.outcome = "ConfigLocked"]
       ELSE /\ bot_config' = cfg
            /\ lastResult' = [NoResult EXCEPT !.op = "update_config",
                                              !.outcome = "ok"]
    /\ UNCHANGED <<botState, ACTIVE_BOT_ORDERS, last_price, botPc,
                   current_price, quotes, toCancel, stopPc, calls,
                   mark_prices,
                   in_flight, bvars, uvars>>

\* bot_main_loop, steps 1 to 3: resolve the price from the cached mark
\* prices, decide on the refresh, compute the quotes
EngineTick ==
    /\ botState = "RUNNING" /\ botPc = "tick" /\ stopPc = "none"
    /\ calls' = <<>>
    /\ \E m \in MarkInputs :
         \E p \in {get_current_price(m.balance, m.position)} :
           /\ mark_prices' = m
           /\ current_price' = p
           /\ IF price_usable(p)
                 /\ should_refresh(p, last_price, bot_config,
                                   ACTIVE_BOT_ORDERS)
              THEN /\ quotes' = QuoteTable[p, bot_config]
                   /\ toCancel' = OrderIds(ACTIVE_BOT_ORDERS)
                   /\ botPc' = IF ACTIVE_BOT_ORDERS = {} THEN "buy"
                               ELSE "cancel"
              ELSE /\ botPc' = "sleep"
                   /\ UNCHANGED <<quotes, toCancel>>
    /\ UNCHANGED <<botState, bot_config, ACTIVE_BOT_ORDERS, last_price,
                   stopPc, lastResult, in_flight, bvars, uvars>>

\* a cancel or a placement that raises inside the loop with nothing to
\* catch it: the loop task ends
ReplaceFailureUnhandled(next) == "idle"

\* the failure policy of the replace step: a failed cancel or placement is
\* logged and the iteration goes on to its next step
ReplaceFailureAbsorbed(next) == next

\* step 3a: cancel an old order; a cancel that fails leaves the order
\* tracked and does not keep the others from being cancelled
EngineCancel ==
    /\ botPc = "cancel" /\ stopPc = "none" /\ toCancel # {}
    /\ \E id \in {FirstOf(toCancel)}, ok \in BOOLEAN :
         /\ calls' = Append(calls, [op |-> "cancel", id |-> id,
                                    side |-> "none", price |-> NoPrice])
         /\ toCancel' = toCancel \ {id}
         /\ ACTIVE_BOT_ORDERS' =
                IF ok THEN {o \in ACTIVE_BOT_ORDERS : o.id # id}
                ELSE ACTIVE_BOT_ORDERS
         /\ \E next \in {IF toCancel' = {} THEN "buy" ELSE "cancel"} :
              botPc' = IF ok THEN next ELSE ReplaceFailureAbsorbed(next)
    /\ UNCHANGED <<botState, bot_config, last_price, current_price, quotes,
                   stopPc, lastResult, mark_prices,
                   in_flight, bvars, uvars>>

\* where the loop waits for the acknowledgement of a placement, and where
\* it goes from there
AwaitPc(side) == IF side = "BUY" THEN "buy_sent" ELSE "sell_sent"

AfterPc(pc) == IF pc \in {"buy", "buy_sent"} THEN "sell" ELSE "sleep"

\* the request of a placement the loop is waiting for
Sent(side, price, verified) ==
    [side |-> side, price |-> price, owner |-> "loop", verified |-> verified]

\* create_order with the verification of the SIGNING_GUIDE, which prints
\* the failure and goes on
create_order_print_only(side, price, next) ==
    \E h \in {HashTable[side, price, now]} :
        \E sig \in SignResults(h) :
          /\ Cardinality(in_flight) < MaxInFlight
          /\ calls' = Append(calls, [op |-> "create", id |-> 0,
                                     side |-> side, price |-> price])
          /\ in_flight' = in_flight \cup
                             {Sent(side, price, local_verify(h, sig))}
          /\ botPc' = AwaitPc(side)
          /\ UNCHANGED <<lastResult, ACTIVE_BOT_ORDERS>>

\* OrderManager.create_order: hash, sign, verify locally, and only then
\* send the POST_ONLY order to the exchange and await its answer
create_order(side, price, next) ==
    \E h \in {HashTable[side, price, now]} :
        \E sig \in SignResults(h) :
          IF ~local_verify(h, sig)
          THEN /\ lastResult' = [op |-> "create", side |-> side,
                                 outcome |-> "SigningError",
                                 verified |-> FALSE]
               /\ botPc' = ReplaceFailureAbsorbed(next)
               /\ UNCHANGED <<calls, ACTIVE_BOT_ORDERS, in_flight>>
          ELSE /\ Cardinality(in_flight) < MaxInFlight
               /\ calls' = Append(calls, [op |-> "create", id |-> 0,
                                          side |-> side, price |-> price])
               /\ in_flight' = in_flight \cup {Sent(side, price, TRUE)}
               /\ botPc' = AwaitPc(side)
               /\ UNCHANGED <<lastResult, ACTIVE_BOT_ORDERS>>

\* the exchange answers the placement the loop awaits: an accepted order is
\* tracked under the id returned, a rejected one is not; after the SELL the
\* quoted price is remembered
OrderAcknowledged ==
    /\ botPc \in {"buy_sent", "sell_sent"} /\ stopPc = "none"
    /\ \E o \in {x \in in_flight : x.owner = "loop"}, accepted \in BOOLEAN :
         /\ in_flight' = in_flight \ {o}
         /\ IF accepted /\ Cardinality(ACTIVE_BOT_ORDERS) < MaxOrders
            THEN /\ ACTIVE_BOT_ORDERS' = ACTIVE_BOT_ORDERS \cup
                       {[id |-> NewId(ACTIVE_BOT_ORDERS), side |-> o.side,
                         price |-> o.price, size |-> bot_config.order_size]}
                 /\ lastResult' = [op |-> "create", side |-> o.side,
                                   outcome |-> "created",
                                   verified |-> o.verified]
                 /\ botPc' = AfterPc(botPc)
            ELSE /\ lastResult' = [op |-> "create", side |-> o.side,
                                   outcome |-> "ExchangeRejected",
                                   verified |-> o.verified]
                 /\ botPc' = ReplaceFailureAbsorbed(AfterPc(botPc))
                 /\ UNCHANGED ACTIVE_BOT_ORDERS
    /\ last_price' = IF botPc' = "sleep" THEN current_price ELSE last_price
    /\ UNCHANGED <<botState, bot_config, current_price, quotes, toCancel,
                   stopPc, calls, mark_prices, bvars, uvars>>

\* step 3c: the POST_ONLY buy at the bid
EngineBuy ==
    /\ botPc = "buy" /\ stopPc = "none"
    /\ create_order("BUY", quotes.bid, "sell")
    /\ UNCHANGED <<botState, bot_config, last_price, current_price, quotes,
                   toCancel, stopPc, mark_prices,
                   bvars, uvars>>

\* step 3c: the POST_ONLY sell at the ask; the quoted price is remembered
\* when the step is over
EngineSell ==
    /\ botPc = "sell" /\ stopPc = "none"
    /\ create_order("SELL", quotes.ask, "sleep")
    /\ last_price' = IF botPc' = "sleep" THEN current_price ELSE last_price
    /\ UNCHANGED <<botState, bot_config, current_price, quotes, toCancel,
                   stopPc, mark_prices,
                   bvars, uvars>>

\* step 4: sleep(refresh_interval); the iteration is over, and with it the
\* price it resolved and the requests it made
EngineSleep ==
    /\ botPc = "sleep" /\ stopPc = "none"
    /\ botPc' = "tick"
    /\ calls' = <<>>
    /\ current_price' = NoPrice
    /\ mark_prices' = NoMarks
    /\ UNCHANGED <<botState, bot_config, ACTIVE_BOT_ORDERS, last_price,
                   quotes, toCancel, stopPc, lastResult, in_flight, bvars, uvars>>

\* a stop that only raises a flag, which the loop would see after its sleep
StopCheckedAfterSleep(pc) == pc

\* the stop takes effect at the suspension point the loop is at: the sleep
\* (or the call) is interrupted and the loop task is over
StopInterruptsLoop(pc) == "idle"

\* POST /api/bot/stop: the loop task is cancelled where it is suspended
\* (what it held of the iteration is gone) and every tracked order is to be
\* cancelled
stop_bot ==
    /\ botState = "RUNNING" /\ stopPc = "none"
    /\ stopPc' = "cancelling"
    /\ botPc' = StopInterruptsLoop(botPc)
    /\ toCancel' = OrderIds(ACTIVE_BOT_ORDERS)
    /\ calls' = <<>>
    /\ current_price' = NoPrice
    /\ mark_prices' = NoMarks
    /\ quotes' = [bid |-> NoPrice, ask |-> NoPrice]
    /\ last_price' = NoPrice
    /\ in_flight' = {[o EXCEPT !.owner = "orphan"] : o \in in_flight}
    /\ UNCHANGED <<botState, bot_config, ACTIVE_BOT_ORDERS,
                   lastResult, bvars, uvars>>

\* a stop that gives up at the first cancel that fails
StopCancelUntilFailure ==
    /\ stopPc = "cancelling" /\ botPc = "idle" /\ toCancel # {}
    /\ \E id \in {FirstOf(toCancel)}, ok \in BOOLEAN :
         /\ calls' = Append(calls, [op |-> "cancel", id |-> id,
                                    side |-> "none", price |-> NoPrice])
         /\ toCancel' = IF ok THEN toCancel \ {id} ELSE {}
    /\ UNCHANGED <<botState, bot_config, ACTIVE_BOT_ORDERS, last_price, botPc,
                   current_price, quotes, stopPc, lastResult, mark_prices,
                   in_flight, bvars, uvars>>

\* the stop cancels one tracked order, best-effort
StopCancel ==
    /\ stopPc = "cancelling" /\ botPc = "idle" /\ toCancel # {}
    /\ \E id \in {FirstOf(toCancel)}, ok \in BOOLEAN :
         /\ calls' = Append(calls, [op |-> "cancel", id |-> id,
                                    side |-> "none", price |-> NoPrice])
         /\ toCancel' = toCancel \ {id}
    /\ UNCHANGED <<botState, bot_config, ACTIVE_BOT_ORDERS, last_price, botPc,
                   current_price, quotes, stopPc, lastResult, mark_prices,
                   in_flight, bvars, uvars>>

\* all cancels attempted: the tracking is emptied and the bot is stopped
StopFinish ==
    /\ stopPc = "cancelling" /\ botPc = "idle" /\ toCancel = {}
    /\ ACTIVE_BOT_ORDERS' = {}
    /\ botState' = "STOPPED"
    /\ stopPc' = "none"
    /\ calls' = <<>>
    /\ lastResult' = [NoResult EXCEPT !.op = "stop", !.outcome = "ok"]
    /\ UNCHANGED <<bot_config, last_price, botPc, current_price, quotes,
                   toCancel, mark_prices,
                   in_flight, bvars, uvars>>

\* a stop that leaves the awaiting call alive: its order is tracked when the
\* answer comes
TrackLateAcknowledgement(orders, o) ==
    IF Cardinality(orders) < MaxOrders
    THEN orders \cup {[id |-> NewId(orders), side |-> o.side,
                       price |-> o.price, size |-> bot_config.order_size]}
    ELSE orders

\* the stop cancels the tracking of the calls in flight: the answer to a
\* request whose loop was stopped changes nothing
DropLateAcknowledgement(orders, o) == orders

\* the exchange answers a placement whose loop has been stopped since
LateAcknowledge ==
    /\ \E o \in {x \in in_flight : x.owner = "orphan"},
          accepted \in BOOLEAN :
         /\ in_flight' = in_flight \ {o}
         /\ ACTIVE_BOT_ORDERS' =
                IF accepted
                THEN DropLateAcknowledgement(ACTIVE_BOT_ORDERS, o)
                ELSE ACTIVE_BOT_ORDERS
         /\ lastResult' = [op |-> "late_ack", side |-> o.side,
                           outcome |-> IF accepted THEN "untracked"
                                       ELSE "ExchangeRejected",
                           verified |-> o.verified]
    /\ UNCHANGED <<botState, bot_config, last_price, botPc, current_price,
                   quotes, toCancel, stopPc, calls, mark_prices,
                   bvars, uvars>>

\* ------------------------------------- useExtendedWebSocket (the client)

\* const maxReconnectAttempts = 50
maxReconnectAttempts == 50

\* 3^k, as bits
RECURSIVE Pow3(_)
Pow3(k) == IF k = 0 THEN <<1>> ELSE NMul(Pow3(k - 1), <<1, 1>>)

\* Math.pow(1.5, k): the float nearest to 3^k / 2^k
Pow15(k) == Round(0, Pow3(k), 0 - k)

\* Math.min
FMin(a, b) == IF FGt(a, b) THEN b ELSE a

\* a backoff that is not capped
reconnect_delay_uncapped(n) == FMul(FromInt(1000), Pow15(n - 1))

\* Math.min(1000 * Math.pow(1.5, reconnectAttemptsRef.current - 1), 30000)
reconnect_delay(n) ==
    FMin(FMul(FromInt(1000), Pow15(n - 1)), FromInt(30000))

DelayTable ==
    Tabulated([n \in 1..maxReconnectAttempts |-> reconnect_delay(n)])

NoTimeout == [set |-> FALSE, delay |-> FZero]

\* the messages the broadcaster writes; has: whether the balance (of a
\* snapshot) or the data (of a diff) is present
Messages ==
    [type : {"snapshot", "ping", "balance", "positions", "trades"},
     has : BOOLEAN]

HInit ==
    /\ wsState = "none"
    /\ reconnectAttempts = 0
    /\ reconnectTimeout = NoTimeout
    /\ isConnected = FALSE
    /\ error = "null"
    /\ lastMessage = "null"
    /\ extendedData = "empty"
    /\ mounted = "rendered"

\* reconnectAttemptsRef.current++; if (... <= maxReconnectAttempts)
\* reconnectTimeoutRef.current = setTimeout(() => connect(), delay)
ScheduleReconnect(n) ==
    IF n <= maxReconnectAttempts
    THEN [set |-> TRUE, delay |-> DelayTable[n]]
    ELSE NoTimeout

\* connect(): clears the pending timer and constructs the WebSocket; when
\* the constructor throws, the catch block retries
connect(throws) ==
    /\ IF throws
       THEN /\ error' = "constructor failed"
            /\ reconnectAttempts' = reconnectAttempts + 1
            /\ reconnectTimeout' = ScheduleReconnect(reconnectAttempts + 1)
            /\ UNCHANGED wsState
       ELSE /\ wsState' = "CONNECTING"
            /\ reconnectTimeout' = NoTimeout
            /\ UNCHANGED <<reconnectAttempts, error>>
    /\ UNCHANGED <<isConnected, lastMessage, extendedData>>

\* useEffect(() => { connect(); ... }, [])
Mount ==
    /\ mounted = "rendered"
    /\ mounted' = "mounted"
    /\ \E throws \in BOOLEAN : connect(throws)
    /\ UNCHANGED <<bvars, evars, pageVars, fnVars>>

\* the reconnect timer fires
ReconnectTimer ==
    /\ reconnectTimeout.set
    /\ \E throws \in BOOLEAN : connect(throws)
    /\ UNCHANGED <<mounted, bvars, evars, pageVars, fnVars>>

\* an onopen that reports the connection as soon as the handshake is over
OnOpenSetsConnected ==
    /\ wsState = "CONNECTING"
    /\ wsState' = "OPEN"
    /\ reconnectAttempts' = 0
    /\ error' = "null"
    /\ isConnected' = TRUE
    /\ UNCHANGED <<reconnectTimeout, lastMessage, extendedData,
                   mounted, bvars, evars, pageVars, fnVars>>

\* ws.onopen
OnOpen ==
    /\ wsState = "CONNECTING"
    /\ wsState' = "OPEN"
    /\ reconnectAttempts' = 0
    /\ error' = "null"
    /\ UNCHANGED <<reconnectTimeout, isConnected, lastMessage, extendedData,
                   mounted, bvars, evars, pageVars, fnVars>>

\* ws.onmessage
OnMessage(m) ==
    /\ wsState = "OPEN"
    /\ IF m.type = "snapshot"
       THEN /\ isConnected' = TRUE
            /\ error' = "null"
            /\ extendedData' = IF m.has THEN "balance" ELSE extendedData
            /\ UNCHANGED lastMessage
       ELSE IF m.type = "balance" /\ m.has
       THEN /\ extendedData' = "balance"
            /\ lastMessage' = "balance"
            /\ UNCHANGED <<isConnected, error>>
       ELSE IF m.type = "trades"
       THEN /\ lastMessage' = "trades"
            /\ UNCHANGED <<isConnected, error, extendedData>>
       ELSE UNCHANGED <<isConnected, error, extendedData, lastMessage>>
    /\ UNCHANGED <<wsState, reconnectAttempts, reconnectTimeout, mounted,
                   bvars, evars, pageVars, fnVars>>

\* ws.onerror: the connection failed, its close event follows
OnError ==
    /\ wsState \in {"CONNECTING", "OPEN"}
    /\ wsState' = "CLOSING"
    /\ error' = "WebSocket connection error"
    /\ UNCHANGED <<reconnectAttempts, reconnectTimeout, isConnected,
                   lastMessage, extendedData, mounted, bvars, evars,
                   pageVars, fnVars>>

\* ws.onclose
OnClose ==
    /\ wsState \in {"CONNECTING", "OPEN", "CLOSING"}
    /\ wsState' = "CLOSED"
    /\ isConnected' = FALSE
    /\ reconnectAttempts' = reconnectAttempts + 1
    /\ reconnectTimeout' = ScheduleReconnect(reconnectAttempts + 1)
    /\ error' = IF reconnectAttempts + 1 <= maxReconnectAttempts
                THEN error
                ELSE "Max reconnection attempts reached"
    /\ UNCHANGED <<lastMessage, extendedData, mounted, bvars, evars,
                   pageVars, fnVars>>

\* the effect's cleanup: clearTimeout(reconnectTimeoutRef.current) and
\* wsRef.current.close()
Unmount ==
    /\ mounted = "mounted"
    /\ mounted' = "unmounted"
    /\ reconnectTimeout' = NoTimeout
    /\ wsState' = IF wsState \in {"CONNECTING", "OPEN"} THEN "CLOSING"
                  ELSE wsState
    /\ UNCHANGED <<reconnectAttempts, isConnected, error, lastMessage,
                   extendedData, bvars, evars, pageVars, fnVars>>

\* ------------------------------------------------- Index (the dashboard)

Markets == {"BTC-USD", "ETH-USD"}

\* a position of a poll response, with the fields the statistics read
PositionValues ==
    [side : {"LONG", "SHORT"}, status : {"OPENED", "CLOSED"},
     value : {2}, unrealisedPnl : {1}]

\* the positions of a response, by market
PositionLists == UNION {[S -> PositionValues] : S \in SUBSET Markets}

NoPositions == [m \in {} |-> 0]

\* what useAccountRestAPI holds: balance (null, or its equity), positions
RestData ==
    [balance : {"null", "1"}, positions : PositionLists,
     error : {"null"}]

\* the sum of f[m] over the markets in S
RECURSIVE SumOver(_, _)
SumOver(f, S) ==
    IF S = {} THEN 0
    ELSE LET m == CHOOSE x \in S : TRUE
         IN  f[m] + SumOver(f, S \ {m})

\* the statistics the effect derives from the updated map
PortfolioStats(updated, prev) ==
    LET all == DOMAIN updated
        long == {m \in all : updated[m].side = "LONG"}
        short == {m \in all : updated[m].side = "SHORT"}
        value == [m \in all |-> updated[m].value]
        pnl == [m \in all |-> updated[m].unrealisedPnl]
    IN  [prev EXCEPT
            !.totalNotional = SumOver(value, all),
            !.activePositions = Cardinality(all),
            !.longPositions = Cardinality(long),
            !.longPnl = SumOver(pnl, long),
            !.longNotional = SumOver(value, long),
            !.shortPositions = Cardinality(short),
            !.shortPnl = SumOver(pnl, short),
            !.shortNotional = SumOver(value, short),
            !.totalPnl = SumOver(pnl, long) + SumOver(pnl, short),
            !.positionDetails = all]

\* setAllPositions(prev => ...): an empty response clears the map, any other
\* one sets the entries of its OPENED positions
UpdatedPositions(prev, positions) ==
    IF positions = NoPositions THEN NoPositions
    ELSE LET opened == {m \in DOMAIN positions :
                           positions[m].status = "OPENED"}
         IN  [m \in DOMAIN prev \cup opened |->
                 IF m \in opened THEN positions[m] ELSE prev[m]]

PInit ==
    /\ restAccountData =
           [balance |-> "null", positions |-> NoPositions, error |-> "null"]
    /\ allPositions = NoPositions
    /\ portfolioData =
           [equity |-> "0", totalNotional |-> 0, activePositions |-> 0,
            longPositions |-> 0, longPnl |-> 0, longNotional |-> 0,
            shortPositions |-> 0, shortPnl |-> 0, shortNotional |-> 0,
            totalPnl |-> 0, positionDetails |-> {}]

\* useEffect(..., [restAccountData, publicPrices]) on the data of a poll
RestDataEffect(data) ==
    IF data.balance = "null" /\ data.positions = NoPositions
    THEN UNCHANGED <<allPositions, portfolioData>>
    ELSE LET updated == UpdatedPositions(allPositions, data.positions)
             withBalance ==
                 IF data.balance = "null" THEN portfolioData
                 ELSE [portfolioData EXCEPT !.equity = data.balance]
         IN  /\ allPositions' = updated
             /\ portfolioData' = PortfolioStats(updated, withBalance)

\* a poll of useAccountRestAPI is answered and the page processes it
PollResponse ==
    \E data \in RestData :
        /\ restAccountData' = data
        /\ RestDataEffect(data)
        /\ UNCHANGED <<bvars, evars, hookVars, fnVars>>

\* a poll fails: the data is kept and the error recorded
PollError ==
    /\ restAccountData' = [restAccountData EXCEPT !.error = "failed"]
    /\ RestDataEffect(restAccountData)
    /\ UNCHANGED <<bvars, evars, hookVars, fnVars>>

\* handleResetPositions: setAllPositions(new Map())
handleResetPositions ==
    /\ allPositions' = NoPositions
    /\ UNCHANGED <<restAccountData, portfolioData, bvars, evars, hookVars, fnVars>>

\* ------------------------------------------------------ useAccountRestAPI

\* fetches the interval starts in one run
MaxFetch == 3

\* the bodies /api/cached-account answers with, as the hook keeps them
FetchedData ==
    {d \in RestData :
        /\ d.balance = "1"
        /\ \A m \in DOMAIN d.positions :
               d.positions[m].status = "OPENED" /\ d.positions[m].side = "LONG"
        /\ Cardinality(DOMAIN d.positions) <= 1}

RInit ==
    /\ issued = 0
    /\ pending = {}
    /\ applied = 0

\* fetchAccountData() is called, on mount and then by
\* setInterval(fetchAccountData, 250), whether or not the earlier calls have
\* returned: await fetch(API_ENDPOINTS.cachedAccount)
IntervalFetch ==
    /\ issued < MaxFetch
    /\ issued' = issued + 1
    /\ \E d \in FetchedData :
          pending' = pending \cup {[id |-> issued + 1, data |-> d]}
    /\ UNCHANGED <<applied, cmpVars, bvars, evars, hookVars, pageVars>>

\* the response of one call arrives: setData({balance, positions, ...}),
\* and the page processes the new data
FetchResolved ==
    \E f \in pending :
        /\ pending' = pending \ {f}
        /\ applied' = f.id
        /\ restAccountData' = f.data
        /\ RestDataEffect(f.data)
        /\ UNCHANGED <<issued, cmpVars, bvars, evars, hookVars>>

\* one call fails: setData(prev => ({...prev, error}))
FetchRejected ==
    \E f \in pending :
        /\ pending' = pending \ {f}
        /\ restAccountData' = [restAccountData EXCEPT !.error = "failed"]
        /\ RestDataEffect(restAccountData)
        /\ UNCHANGED <<issued, applied, cmpVars, bvars, evars, hookVars>>


\* ---------------------------------------------- data_changed on its own

\* payloads of each category, with the fields and the items in either order
BalancePayloads ==
    {Obj(<< <<"equity", 1>>, <<"marginRatio", 2>> >>),
     Obj(<< <<"marginRatio", 2>>, <<"equity", 1>> >>),
     Obj(<< <<"equity", 2>>, <<"marginRatio", 2>> >>)}

PositionPayloads ==
    LET Position1 == << <<"market", 1>>, <<"size", 1>> >>
        Position1r == << <<"size", 1>>, <<"market", 1>> >>
        Position2 == << <<"market", 2>>, <<"size", 1>> >>
    IN  {List(<<>>), List(<<Position1>>), List(<<Position1r>>),
         List(<<Position2>>), List(<<Position1, Position2>>),
         List(<<Position2, Position1>>)}

TradePayloads ==
    LET Trade1 == << <<"id", 1>>, <<"market", 1>> >>
        Trade2 == << <<"id", 2>>, <<"market", 1>> >>
    IN  {List(<<Trade1>>), List(<<Trade1, Trade2>>),
         List(<<Trade2, Trade1>>)}

CompareValues ==
    {Null} \cup BalancePayloads \cup PositionPayloads \cup TradePayloads

CInit ==
    /\ old_data = Null
    /\ new_data = Null
    /\ changed = "none"

\* the arguments of a call
CompareInit ==
    /\ old_data \in CompareValues
    /\ new_data \in CompareValues
    /\ changed = "none"

\* changed = data_changed(old_data, new_data)
Compare ==
    /\ changed = "none"
    /\ changed' = IF data_changed(old_data, new_data) THEN "changed"
                  ELSE "unchanged"
    /\ UNCHANGED <<old_data, new_data, restVars, bvars, evars, hookVars,
                   pageVars>>

UInit == HInit /\ PInit /\ RInit /\ CInit

\* ------------------------------------------------------------------ system

Init == BInit /\ EInit /\ UInit

PollerNext ==
    \/ PollFastFetch
    \/ PollFastPositions
    \/ PollFastBalance
    \/ PollTradesFetch
    \/ PollTrades
    \/ PollerSleep
    \/ PollerWake

\* the broadcaster with its websocket subscribers
Next ==
    \/ ClockTick
    \/ PollerNext
    \/ BroadcastNext
    \/ \E c \in Conns : Subscribe(c)
    \/ \E c \in Conns : ConnectionLost(c)
    \/ \E c \in Conns : Disconnect(c)

Spec == Init /\ [][Next]_vars

\* the broadcaster's first poll cycle with its subscribers and their
\* keep-alive pings
NextPing ==
    \/ PollFastFetch
    \/ PollFastPositions
    \/ PollFastBalance
    \/ PollTradesFetch
    \/ PollTrades
    \/ PollerSleep
    \/ BroadcastNext
    \/ \E c \in Conns : Subscribe(c)
    \/ \E c \in Conns : Ping(c)
    \/ \E c \in Conns : ConnectionLost(c)
    \/ \E c \in Conns : Disconnect(c)

SpecPing == Init /\ [][NextPing]_vars

\* the poller running between two awaits: it holds the event loop
PollerRuns == ~PollerSuspended /\ PollerNext

\* the same, with the event loop running the poller to its next await and
\* every handler whose ping timer has fired; an await of the poller (a
\* fetch, a send of a broadcast) may never return
SpecKeepAlive ==
    /\ Init /\ [][NextPing]_vars
    /\ WF_vars(PollerRuns)
    /\ \A c \in Conns : WF_vars(Disconnect(c))

\* the broadcaster with its REST readers
NextRead ==
    \/ ClockTick
    \/ PollerNext
    \/ get_cached_account

SpecRead == Init /\ [][NextRead]_vars

\* the same, with the event loop running every task that is ready and time
\* passing
SpecLive ==
    /\ Init /\ [][NextRead]_vars
    /\ WF_vars(PollerNext)
    /\ WF_vars(ClockTick)

\* the market-making bot and its control endpoints
NextEngine ==
    \/ start_bot
    \/ \E cfg \in Configs : update_config(cfg)
    \/ EngineTick
    \/ EngineCancel
    \/ EngineBuy
    \/ EngineSell
    \/ OrderAcknowledged
    \/ EngineSleep
    \/ stop_bot
    \/ StopCancel
    \/ StopFinish
    \/ LateAcknowledge

SpecEngine == Init /\ [][NextEngine]_vars

\* the stop handler is a coroutine of the event loop: once the stop is
\* accepted its cancels and its completion are scheduled; the loop's own
\* steps get no fairness, a sleep may last as long as it likes
SpecEngineLive ==
    /\ Init /\ [][NextEngine]_vars
    /\ WF_vars(StopCancel)
    /\ WF_vars(StopFinish)

\* the subscription client of the dashboard
NextClient ==
    \/ Mount
    \/ ReconnectTimer
    \/ OnOpen
    \/ \E m \in Messages : OnMessage(m)
    \/ OnError
    \/ OnClose
    \/ Unmount

SpecClient == Init /\ [][NextClient]_vars

\* the dashboard page processing the answers of its polls
NextPage ==
    \/ PollResponse
    \/ PollError
    \/ handleResetPositions

SpecPage == Init /\ [][NextPage]_vars

\* the REST polling hook of the dashboard and the page behind it
NextRest ==
    \/ IntervalFetch
    \/ FetchResolved
    \/ FetchRejected

SpecRest == Init /\ [][NextRest]_vars

\* the rest of the program as it starts, and one pair of arguments
InitCompare ==
    BInit /\ EInit /\ HInit /\ PInit /\ RInit /\ CompareInit

\* data_changed applied to one pair of arguments
SpecCompare == InitCompare /\ [][Compare]_vars

\* ------------------------------------------------------------ properties

C3_NoReplay ==
    \A c \in Conns :
        \A i \in 1..Len(inbox[c]) :
            /\ (inbox[c][i].type = "snapshot") <=> (i = 1)
            /\ inbox[c][i].type \in Categories
                  => inbox[c][i].seq > inbox[c][1].seq

\* the prices and quotes of the examples
P100 == Float(100, 0)

P100_19 == Float(10019, 2)

P100_21 == Float(10021, 2)

P60000 == Float(60000, 0)

Bid59940 == FromInt(59940)

Ask60060 == FromInt(60060)

\* C4: when a stop completes, exactly one cancel was attempted for each
\* order tracked and no order is tracked any more, whichever cancels failed.
C4_StopCancelsAll ==
    [][(botState = "RUNNING" /\ botState' = "STOPPED") =>
         /\ ACTIVE_BOT_ORDERS' = {}
         /\ Len(calls) = Cardinality(ACTIVE_BOT_ORDERS)
         /\ {calls[i].id : i \in 1..Len(calls)} = OrderIds(ACTIVE_BOT_ORDERS)
         /\ \A i \in 1..Len(calls) : calls[i].op = "cancel"
      ]_vars

\* a stop of a bot tracking two orders, its cancels attempted
C4_Witness ==
    /\ botState = "RUNNING" /\ stopPc = "cancelling" /\ toCancel = {}
    /\ Cardinality(ACTIVE_BOT_ORDERS) = 2
    /\ Len(calls) = 2

C6_ConfigLocked ==
    [][/\ bot_config' # bot_config =>
             /\ botState = "STOPPED" /\ botState' = "STOPPED"
             /\ lastResult'.op = "update_config"
             /\ lastResult'.outcome = "ok"
       /\ (/\ lastResult' # lastResult
           /\ lastResult'.op = "update_config"
           /\ botState = "RUNNING") =>
             /\ lastResult'.outcome = "ConfigLocked"
             /\ bot_config' = bot_config
      ]_vars

\* an update was refused while the bot quotes
C6_Witness ==
    /\ botState = "RUNNING"
    /\ lastResult.op = "update_config"
    /\ lastResult.outcome = "ConfigLocked"
    /\ ACTIVE_BOT_ORDERS # {}

\* whether abs(price - last)/last is strictly greater than the threshold, for
\* the prices and thresholds of the model
RelativeMoveExceeds ==
    Tabulated([price, last \in Prices,
               threshold \in {c.price_move_threshold : c \in Configs} |->
                  FGt(FDiv(FAbs(FSub(price, last)), last), threshold)])

\* C7: an iteration with a resolved price goes on to replace the quotes
\* exactly when no order is tracked or abs(price - last)/last is greater than
\* the threshold; after a quote at 100 with threshold 0.002, 100.19 does not
\* and 100.21 does; an iteration that does not replace sends no request.
C7_RefreshTrigger ==
    [][/\ (botPc = "tick" /\ botPc' \in {"cancel", "buy", "sleep"}
              /\ price_usable(current_price')) =>
             LET replaced == botPc' \in {"cancel", "buy"}
                 price == current_price'
                 threshold == bot_config.price_move_threshold
             IN  /\ replaced <=>
                       \/ ACTIVE_BOT_ORDERS = {}
                       \/ RelativeMoveExceeds[price, last_price, threshold]
                 /\ (/\ ACTIVE_BOT_ORDERS # {}
                     /\ last_price = P100
                     /\ threshold = DefaultConfig.price_move_threshold) =>
                       /\ price = P100_19 => ~replaced
                       /\ price = P100_21 => replaced
                 /\ ~replaced => calls' = <<>>
       /\ (calls' # calls /\ calls' # <<>>) =>
             \/ botPc \in {"cancel", "buy", "sell"}
             \/ stopPc = "cancelling"
      ]_vars

\* the price moved from 100 to 100.19 while orders rest: nothing was sent
C7_Witness ==
    /\ botPc = "sleep"
    /\ current_price = P100_19 /\ last_price = P100
    /\ bot_config = DefaultConfig
    /\ ACTIVE_BOT_ORDERS # {}
    /\ calls = <<>>

\* C8: at price 60000 with spread 0.001 the quotes are exactly 59940 and
\* 60060, and the requests of the replace step are a BUY at the bid and a
\* SELL at the ask.
C8_QuotesExact ==
    (/\ current_price = P60000
     /\ bot_config.spread_percentage = DefaultConfig.spread_percentage
     /\ botPc \in {"cancel", "buy", "sell"}) =>
        /\ quotes = [bid |-> Bid59940, ask |-> Ask60060]
        /\ \A i \in 1..Len(calls) :
             /\ calls[i].side = "BUY" => calls[i].price = Bid59940
             /\ calls[i].side = "SELL" => calls[i].price = Ask60060

C12_PassDeliversAndPrunes ==
    [][/\ (pass.type # "none" /\ pass'.type = "none") =>
             /\ (pass.orig \cap BROADCAST_CLIENTS) \subseteq pass.visited
             /\ pass.disconnected \cap BROADCAST_CLIENTS' = {}
             /\ (BROADCAST_CLIENTS \ BROADCAST_CLIENTS')
                   \subseteq pass.disconnected
       /\ (pass.type # "none" /\ pass'.type # "none"
             /\ pass'.visited # pass.visited) =>
             BROADCAST_CLIENTS' = BROADCAST_CLIENTS
      ]_vars

\* C13: on every websocket the diffs of one category come in the order of
\* their broadcast_to_clients calls, each call at most once, and each call was
\* made after the websocket subscribed (after the calls its snapshot counts).
C13_DiffsInPublishOrder ==
    \A c \in Conns :
        \A i, j \in 1..Len(inbox[c]) :
            (/\ i < j
             /\ inbox[c][j].type \in Categories
             /\ inbox[c][i].type \in {inbox[c][j].type, "snapshot"}) =>
                inbox[c][i].seq < inbox[c][j].seq

\* C14: broadcast_to_clients is called for a category only in the step that
\* compared it and found a change, after the cache took the new value and
\* the stamp; every diff written to a websocket belongs to the running call
\* and carries its category; a comparison that finds no change writes to no
\* websocket.
C14_PublishOnlyOnChange ==
    [][/\ pubSeq' # pubSeq =>
             \E c \in Categories :
                 /\ pollerPc = "cmp_" \o c
                 /\ data_changed(cache[c], fetched[c])
                 /\ cache'[c] = fetched[c]
                 /\ last_update'[c] = now
                 /\ pass'.type \in {c, "none"}
       /\ \A k \in Conns :
             (/\ Len(inbox'[k]) = Len(inbox[k]) + 1
              /\ inbox'[k][Len(inbox'[k])].type \in Categories) =>
                 /\ pass'.type = inbox'[k][Len(inbox'[k])].type
                 /\ pass'.seq = inbox'[k][Len(inbox'[k])].seq
                 /\ pass'.seq = pubSeq'
       /\ \A c \in Categories :
             (pollerPc = "cmp_" \o c /\ ~data_changed(cache[c], fetched[c])) =>
                 /\ pubSeq' = pubSeq
                 /\ inbox' = inbox
                 /\ UNCHANGED <<cache, last_update>>
      ]_vars

\* a subscriber got the positions diff of an earlier tick, and this tick
\* fetched the same positions and went on without a message
C14_Witness ==
    \E k \in Conns :
        /\ conn[k] = "open"
        /\ Len(inbox[k]) = 2
        /\ inbox[k][2].type = "positions"
        /\ pollerPc = "cmp_balance"
        /\ fetched["positions"] = cache["positions"]
        /\ last_update["positions"] < now
        /\ pass.type = "none"

\* min(1000 * 1.5^(n-1), 30000) computed exactly: the float of value
\* 1000 * 3^(n-1) / 2^(n-1) while 3^(n-1) <= 30 * 2^(n-1), 30000 after
ExpectedDelay ==
    Tabulated([n \in 1..maxReconnectAttempts |->
                  IF NCmp(Pow3(n - 1), NShl(NatBits(30), n - 1)) <= 0
                  THEN Round(0, NMul(NatBits(1000), Pow3(n - 1)), 1 - n)
                  ELSE FromInt(30000)])

\* C15: the client schedules a reconnect only as the n-th consecutive
\* failure since the last open, for n <= 50, with a delay of
\* min(1000 * 1.5^(n-1), 30000) ms; the close that makes the 51st failure
\* schedules nothing and reports 'Max reconnection attempts reached'; the
\* counter changes only by one per failure and is reset to 0 by an open.
C15_ReconnectBackoff ==
    [][/\ (reconnectTimeout'.set /\ reconnectTimeout' # reconnectTimeout) =>
             /\ reconnectAttempts' = reconnectAttempts + 1
             /\ reconnectAttempts' <= maxReconnectAttempts
             /\ reconnectTimeout'.delay = ExpectedDelay[reconnectAttempts']
       /\ (wsState # "CLOSED" /\ wsState' = "CLOSED") =>
             /\ reconnectAttempts' = reconnectAttempts + 1
             /\ IF reconnectAttempts' <= maxReconnectAttempts
                THEN reconnectTimeout'.set
                ELSE /\ ~reconnectTimeout'.set
                     /\ error' = "Max reconnection attempts reached"
       /\ (wsState # "OPEN" /\ wsState' = "OPEN") => reconnectAttempts' = 0
       /\ reconnectAttempts' \in
             {reconnectAttempts, reconnectAttempts + 1, 0}
       /\ (reconnectAttempts' = 0 /\ reconnectAttempts # 0) =>
             wsState' = "OPEN"
       /\ reconnectAttempts' <= maxReconnectAttempts + 1
       /\ reconnectAttempts' > maxReconnectAttempts => ~reconnectTimeout'.set
      ]_vars

\* the 51st consecutive close: nothing is scheduled and the error is set
C15_Witness ==
    /\ reconnectAttempts = maxReconnectAttempts + 1
    /\ wsState = "CLOSED"
    /\ ~reconnectTimeout.set
    /\ error = "Max reconnection attempts reached"

\* C16: after a poll response was processed, the position map and the
\* position list and count derived from it hold no market that the latest
\* response does not hold.
C16_AbsentPositionRemoved ==
    /\ DOMAIN allPositions \subseteq DOMAIN restAccountData.positions
    /\ portfolioData.positionDetails
          \subseteq DOMAIN restAccountData.positions
    /\ portfolioData.activePositions
          <= Cardinality(DOMAIN restAccountData.positions)

\* C17: a position that the latest poll response reports with a status
\* other than OPENED is not among the positions the statistics count.
C17_OnlyOpenedCounted ==
    \A m \in portfolioData.positionDetails :
        m \in DOMAIN restAccountData.positions
            => restAccountData.positions[m].status = "OPENED"

C19_NoMutationDuringPass ==
    [][(pass.type # "none" /\ pass'.type # "none")
          => BROADCAST_CLIENTS' = BROADCAST_CLIENTS]_vars

\* C20: while the trades fetch of a tick is in flight, the fetch of the
\* next fast tick can start.
C20_TradesFetchDoesNotBlock ==
    (pollerPc = "check_trades" /\ TRADES_POLL_COUNTER >= TradesEvery)
        => ENABLED PollFastFetch

\* C9: a read changes no cache field and not the subscriber set; two
\* consecutive reads with no cache write between them return the same
\* positions, balance and trades, and each cache_age_ms grows by exactly the
\* time between the two reads.
C9_ReadIsPure ==
    [][resp' # resp =>
         /\ UNCHANGED <<cache, last_update, BROADCAST_CLIENTS>>
         /\ (resp.status = "ok" /\ resp'.writes = resp.writes) =>
               /\ resp'.positions = resp.positions
               /\ resp'.balance = resp.balance
               /\ resp'.trades = resp.trades
               /\ \A c \in Categories :
                    resp'.cache_age_ms[c] - resp.cache_age_ms[c]
                        = resp'.at - resp.at
      ]_vars

\* a read of a filled cache, served some time after the last write
C9_Witness ==
    /\ resp.status = "ok"
    /\ resp.positions # Null
    /\ resp.writes = pubSeq
    /\ resp.cache_age_ms["positions"] >= 1

\* C10: a read never answers with a category that was not fetched yet, and
\* what the client keeps of an answer shows empty positions only when the
\* exchange reported none.
C10_NoNullFilledRead ==
    resp.status = "ok" =>
        /\ \A c \in Categories : resp[c] # Null
        /\ fetchAccountData(resp).positions = PositionsNone
              => resp.positions = PositionsNone

\* the fields of an object, whatever their order
PairSet(pairs) == {pairs[i] : i \in DOMAIN pairs}

\* two present payloads hold the same fields with the same values, object by
\* object and, for lists, item by item
DeepEqual(a, b) ==
    /\ a.t = b.t
    /\ a.t = "obj" => PairSet(a.v) = PairSet(b.v)
    /\ a.t = "list" =>
          /\ Len(a.v) = Len(b.v)
          /\ \A i \in 1..Len(a.v) : PairSet(a.v[i]) = PairSet(b.v[i])

\* C21: data_changed answers changed when the old value is absent and the
\* new one present, unchanged when both are absent, and for two present
\* values unchanged exactly when they are deeply equal whatever the order
\* of their fields.
C21_ChangedUpToKeyOrder ==
    changed # "none" =>
        /\ (old_data = Null /\ new_data # Null) => changed = "changed"
        /\ (old_data = Null /\ new_data = Null) => changed = "unchanged"
        /\ (old_data # Null /\ new_data # Null) =>
              (changed = "unchanged" <=> DeepEqual(old_data, new_data))

\* two position lists whose items differ only in the order of their fields
\* were compared and reported unchanged
C21_Witness ==
    /\ old_data = List(<< << <<"market", 1>>, <<"size", 1>> >> >>)
    /\ new_data = List(<< << <<"size", 1>>, <<"market", 1>> >> >>)
    /\ changed = "unchanged"

\* C22: two position lists that hold the same positions, in whatever order,
\* are reported unchanged, and two trade lists that hold the same trades in
\* different orders are reported changed.
C22_PositionsOrderIndependent ==
    changed # "none" =>
        /\ (/\ old_data \in PositionPayloads /\ new_data \in PositionPayloads
            /\ {PairSet(old_data.v[i]) : i \in DOMAIN old_data.v}
                 = {PairSet(new_data.v[i]) : i \in DOMAIN new_data.v})
              => changed = "unchanged"
        /\ (/\ old_data \in TradePayloads /\ new_data \in TradePayloads
            /\ old_data # new_data)
              => changed = "changed"

\* C23: an iteration resolves the balance's mark price when the cache holds
\* one and the position's mark price otherwise; when none is found or the
\* resolved price is zero, the iteration sends no cancel and no create and
\* leaves the tracked orders and the last quoted price as they were.
C23_PriceResolution ==
    [][/\ (botPc = "tick" /\ botPc' \in {"cancel", "buy", "sleep"}) =>
             /\ current_price' =
                   IF mark_prices'.balance # NoPrice
                   THEN mark_prices'.balance
                   ELSE mark_prices'.position
             /\ current_price' \in {NoPrice, FZero} =>
                   /\ botPc' = "sleep"
                   /\ calls' = <<>>
                   /\ UNCHANGED <<ACTIVE_BOT_ORDERS, last_price>>
       /\ (botPc = "sleep" /\ current_price \in {NoPrice, FZero}) =>
             /\ calls' = <<>>
             /\ stopPc' = "none" =>
                   UNCHANGED <<ACTIVE_BOT_ORDERS, last_price>>
      ]_vars

\* orders rest, the balance's mark price is zero while the position has
\* one: the iteration was skipped
C23_Witness ==
    /\ botPc = "sleep"
    /\ mark_prices = [balance |-> FZero, position |-> P100]
    /\ current_price = FZero
    /\ ACTIVE_BOT_ORDERS # {}
    /\ calls = <<>>

\* C24: in a replace step every tracked order gets its cancel attempt and
\* both placements are attempted whatever the cancels answered, and a
\* placement that fails (one or both) leaves the engine RUNNING with the
\* loop going on to the SELL, the sleep and the next iteration.
C24_ReplaceFailuresIndependent ==
    [][/\ (botPc = "cancel" /\ stopPc' = "none" /\ calls' # calls)
           => /\ toCancel' = toCancel \ {FirstOf(toCancel)}
              /\ botPc' = IF toCancel' = {} THEN "buy" ELSE "cancel"
              /\ botState' = "RUNNING"
       /\ (botPc \in {"buy", "buy_sent"} /\ stopPc' = "none"
              /\ lastResult' # lastResult /\ lastResult'.op = "create")
           => botPc' = "sell" /\ botState' = "RUNNING"
       /\ (botPc \in {"sell", "sell_sent"} /\ stopPc' = "none"
              /\ lastResult' # lastResult /\ lastResult'.op = "create")
           => botPc' = "sleep" /\ botState' = "RUNNING"
       /\ (botPc \in {"buy", "sell"} /\ stopPc' = "none" /\ calls' # calls)
           => botPc' = AwaitPc(calls'[Len(calls')].side)
       /\ (botState' = "RUNNING" /\ stopPc' = "none")
           => botPc' \in {"tick", "cancel", "buy", "buy_sent", "sell",
                          "sell_sent", "sleep"}
      ]_vars

\* an iteration at its sleep whose first cancel failed (the order is still
\* tracked), whose second cancel was attempted all the same, and whose two
\* placements both failed
C24_Witness ==
    /\ botState = "RUNNING" /\ botPc = "sleep" /\ stopPc = "none"
    /\ Len(calls) >= 2
    /\ calls[1].op = "cancel" /\ calls[1].id \in OrderIds(ACTIVE_BOT_ORDERS)
    /\ calls[2].op = "cancel"
    /\ lastResult.op = "create" /\ lastResult.outcome # "created"
    /\ \A o \in ACTIVE_BOT_ORDERS : o.price \notin {quotes.bid, quotes.ask}

\* C25: a stop accepted while the engine is RUNNING always leads to
\* STOPPED, and a stop that finds the loop in its sleep ends the sleep at
\* once: STOPPED is reached without the sleep ever completing.
C25_StopLeadsToStopped ==
    /\ (botState = "RUNNING" /\ stopPc = "cancelling")
           ~> (botState = "STOPPED")
    /\ [][(botPc = "sleep" /\ stopPc = "none" /\ stopPc' = "cancelling")
             => botPc' = "idle"]_vars
    /\ [][(stopPc = "cancelling") => botPc' # "tick"]_vars

\* a stop in progress after a whole replace step (both orders tracked):
\* the loop is over although no sleep has completed since
C25_Witness ==
    /\ botState = "RUNNING" /\ stopPc = "cancelling" /\ botPc = "idle"
    /\ {o.side : o \in ACTIVE_BOT_ORDERS} = {"BUY", "SELL"}
    /\ last_price = NoPrice /\ toCancel = OrderIds(ACTIVE_BOT_ORDERS)

\* C26: while the engine is STOPPED no order is tracked and no placement
\* request is sent, also when the stop was accepted with a placement in
\* flight and its acknowledgement came during or after the stop.
C26_StoppedTracksNothing ==
    [][/\ botState' = "STOPPED" => ACTIVE_BOT_ORDERS' = {}
       /\ botState = "STOPPED" =>
             /\ calls' = calls
             /\ in_flight' \subseteq in_flight
       /\ \A o \in in_flight' : o.owner = "orphan" =>
             o \in in_flight \/ stopPc' = "cancelling"
      ]_vars

\* the exchange accepted, after the stop had completed, an order whose
\* request was in flight when the stop came
C26_Witness ==
    /\ botState = "STOPPED" /\ stopPc = "none"
    /\ lastResult.op = "late_ack" /\ lastResult.outcome = "untracked"
    /\ ACTIVE_BOT_ORDERS = {}
    /\ in_flight = {}

C27_NoReconnectAfterUnmount ==
    [][mounted = "unmounted" =>
         /\ ~(wsState' = "CONNECTING" /\ wsState # "CONNECTING")
         /\ ~(reconnectTimeout'.set /\ ~reconnectTimeout.set)
      ]_vars

\* C28: isConnected becomes true only by a message on the open socket,
\* never by the opening itself, it is false after every close event, and
\* it is true only while the socket that delivered the snapshot is open or
\* closing.
C28_ConnectedMeansSnapshot ==
    [][/\ (isConnected' /\ ~isConnected) =>
             wsState = "OPEN" /\ wsState' = "OPEN"
       /\ (wsState # "OPEN" /\ wsState' = "OPEN") => ~isConnected'
       /\ (wsState # "CLOSED" /\ wsState' = "CLOSED") => ~isConnected'
       /\ isConnected' => wsState' \in {"OPEN", "CLOSING"}
      ]_vars

\* the open socket has delivered a snapshot with a balance (no diff has set
\* the balance: lastMessage is still null) and isConnected is true
C28_Witness ==
    /\ wsState = "OPEN" /\ isConnected
    /\ extendedData = "balance" /\ lastMessage = "null"
    /\ mounted = "mounted"

\* C30: the data the hook holds never goes back from the response of a
\* later-issued fetch to the response of an earlier-issued one, and a fetch
\* that fails changes the error only, not the balance or the positions.
C30_ResponsesInIssueOrder ==
    [][/\ applied' >= applied
       /\ restAccountData'.error # "null" =>
             /\ restAccountData'.balance = restAccountData.balance
             /\ restAccountData'.positions = restAccountData.positions
      ]_vars

====
